---- MODULE Spec2Model ----
(***************************************************************************)
(* Model of pkg/kubernetes/subsetdiff.go: the subset reducer `subset`, the *)
(* per-manifest worker `subsetDiff` / `parallelSubsetDiff` and the         *)
(* orchestrator returned by `SubsetDiffer`.                                *)
(*                                                                         *)
(* Two specifications share the variables:                                 *)
(*   SpecReduce  one call of subset(local, cluster) on inputs drawn from   *)
(*               a bounded set of trees, followed by a second call on the  *)
(*               result;                                                   *)
(*   Spec        one call of the function returned by SubsetDiffer, with   *)
(*               its goroutines and its two unbuffered channels.           *)
(***************************************************************************)
EXTENDS Integers, Sequences, FiniteSets, TLC

(***************************************************************************)
(* Go values of type interface{} as they occur in a manifest tree.  Every  *)
(* value carries its dynamic type, which is what the type switch of        *)
(* subset inspects.                                                        *)
(***************************************************************************)
Nil == [t |-> "nil"]

Scalar(x) == [t |-> "scalar", x |-> x]

MapV(m) == [t |-> "map", m |-> m]

ListV(s) == [t |-> "list", s |-> s]

MapListV(s) == [t |-> "maplist", s |-> s]

\* local[k] of Go: the zero value nil when the key is missing
Index(mv, k) == IF k \in DOMAIN mv.m THEN mv.m[k] ELSE Nil

\* m[k] = v of Go on the raw map m
Put(m, k, v) == [x \in (DOMAIN m) \cup {k} |-> IF x = k THEN v ELSE m[x]]

(***************************************************************************)
(* subset(local, cluster), lines 114-166.                                  *)
(*                                                                         *)
(* The function mutates cluster in place, and lines 116 and 121 store      *)
(* local's own value (a reference, for maps and slices) into cluster.  The *)
(* keys of cluster whose value is local's own object are the `shared`      *)
(* keys; what the loop does to such a value it does to local as well.  An  *)
(* operator therefore returns both trees: [l |-> local, c |-> cluster,     *)
(* p |-> TRUE iff the call panicked].                                      *)
(***************************************************************************)

\* rule1 with the guard of rule2: written only over a namespace cluster has
rule1IfPresent(local, cluster) ==
    IF Index(local, "namespace").t # "nil" /\ Index(cluster, "namespace").t # "nil"
    THEN MapV(Put(cluster.m, "namespace", local.m["namespace"]))
    ELSE cluster

\* lines 115-117
rule1(local, cluster) ==
    IF Index(local, "namespace").t # "nil"
    THEN MapV(Put(cluster.m, "namespace", local.m["namespace"]))
    ELSE cluster

\* rule2 with the guard of rule1: written whenever local has an apiVersion
rule2Unguarded(local, cluster) ==
    IF Index(local, "apiVersion").t # "nil"
    THEN MapV(Put(cluster.m, "apiVersion", local.m["apiVersion"]))
    ELSE cluster

\* rule2 that asks for the key, not for a value: an apiVersion of cluster that
\* holds nil is overwritten too
rule2IfPresent(local, cluster) ==
    IF Index(local, "apiVersion").t # "nil" /\ "apiVersion" \in DOMAIN cluster.m
    THEN MapV(Put(cluster.m, "apiVersion", local.m["apiVersion"]))
    ELSE cluster

\* lines 120-122
rule2(local, cluster) ==
    IF Index(local, "apiVersion").t # "nil" /\ Index(cluster, "apiVersion").t # "nil"
    THEN MapV(Put(cluster.m, "apiVersion", local.m["apiVersion"]))
    ELSE cluster

\* the keys of cluster that hold local's own object after line 116
shared1(local) ==
    IF Index(local, "namespace").t # "nil" THEN {"namespace"} ELSE {}

\* the keys of cluster that hold local's own object after line 121
shared2(local, cluster) ==
    IF Index(local, "apiVersion").t # "nil" /\ Index(cluster, "apiVersion").t # "nil"
    THEN {"apiVersion"}
    ELSE {}

RECURSIVE subsetSelf(_)
RECURSIVE loopSelf(_)

\* the body of the loop, lines 130-163, on a value v that is local[k] and
\* cluster[k] at once: every a and b of the body are the same object
loopSelf(v) ==
    CASE v.t = "map" -> subsetSelf(v)
      [] v.t = "maplist" -> MapListV([i \in 1..Len(v.s) |-> subsetSelf(v.s[i])])
      [] v.t = "list" ->
           ListV([i \in 1..Len(v.s) |->
                    IF v.s[i].t = "map" THEN subsetSelf(v.s[i]) ELSE v.s[i]])
      [] OTHER -> v

\* subset(a, a): lines 116 and 121 store a value over itself, line 126
\* deletes the keys that hold nil
subsetSelf(a) ==
    MapV([k \in {x \in DOMAIN a.m : a.m[x].t # "nil"} |-> loopSelf(a.m[k])])

RECURSIVE subset(_, _)
RECURSIVE loop(_, _, _)

\* listAt without the break of line 146: an element past the end of a is
\* reduced against the empty map
listAtNoBreak(a, b, i) ==
    IF i <= Len(b) /\ b[i].t = "map" /\ (i > Len(a) \/ a[i].t = "map")
    THEN IF i <= Len(a)
         THEN subset(a[i], b[i])
         ELSE [l |-> Nil, c |-> subset(MapV(<<>>), b[i]).c, p |-> FALSE]
    ELSE [l |-> IF i <= Len(a) THEN a[i] ELSE Nil,
          c |-> IF i <= Len(b) THEN b[i] ELSE Nil,
          p |-> FALSE]

\* lines 141-162 at index i (from 1) of the slices a = local[k], b = cluster[k]:
\* the loop breaks at the first index past a, and continues past an element
\* that is no map on either side
listAt(a, b, i) ==
    IF i <= Len(a) /\ i <= Len(b) /\ a[i].t = "map" /\ b[i].t = "map"
    THEN subset(a[i], b[i])
    ELSE [l |-> IF i <= Len(a) THEN a[i] ELSE Nil,
          c |-> IF i <= Len(b) THEN b[i] ELSE Nil,
          p |-> FALSE]

\* lines 135-140 at index i: a[i] is indexed unguarded
mapListAt(a, b, i) ==
    IF i <= Len(a) /\ i <= Len(b)
    THEN subset(a[i], b[i])
    ELSE [l |-> IF i <= Len(a) THEN a[i] ELSE Nil,
          c |-> IF i <= Len(b) THEN b[i] ELSE Nil,
          p |-> i > Len(a)]

\* loopKey without the type switch: nothing below the top level is reduced
loopKeyShallow(lv, cv, isShared) == [l |-> lv, c |-> cv, p |-> FALSE]

\* loopKey that reconciles: a scalar of cluster is overwritten with local's value
loopKeyReconcile(lv, cv, isShared) ==
    IF cv.t = "map" /\ lv.t = "map" /\ ~isShared
    THEN subset(lv, cv)
    ELSE [l |-> lv, c |-> IF cv.t = "scalar" THEN lv ELSE cv, p |-> FALSE]

\* lines 130-163 for one key k that line 125 kept: lv = local[k], cv = v
loopKey(lv, cv, isShared) ==
    IF isShared
    THEN [l |-> loopSelf(cv), c |-> loopSelf(cv), p |-> FALSE]
    ELSE CASE cv.t = "map" /\ lv.t = "map" -> subset(lv, cv)
           [] cv.t = "maplist" /\ lv.t = "maplist" ->
                [l |-> MapListV([i \in 1..Len(lv.s) |-> mapListAt(lv.s, cv.s, i).l]),
                 c |-> MapListV([i \in 1..Len(cv.s) |-> mapListAt(lv.s, cv.s, i).c]),
                 p |-> \E i \in 1..Len(cv.s) : mapListAt(lv.s, cv.s, i).p]
           [] cv.t = "list" /\ lv.t = "list" ->
                [l |-> ListV([i \in 1..Len(lv.s) |-> listAt(lv.s, cv.s, i).l]),
                 c |-> ListV([i \in 1..Len(cv.s) |-> listAt(lv.s, cv.s, i).c]),
                 p |-> \E i \in 1..Len(cv.s) : listAt(lv.s, cv.s, i).p]
           [] OTHER -> [l |-> lv, c |-> cv, p |-> FALSE]

\* loop with a break for the continue of line 127: the loop ends at the first
\* key it deletes (here, the key the iteration meets first)
loopBreak(local, cluster, shared) ==
    LET kept == {k \in DOMAIN cluster.m : Index(local, k).t # "nil"}
        dead == (DOMAIN cluster.m) \ kept
        at(k) == loopKey(local.m[k], cluster.m[k], k \in shared)
    IN  IF dead # {}
        THEN [l |-> local,
              c |-> MapV([k \in (DOMAIN cluster.m) \ {CHOOSE x \in dead : TRUE} |->
                            cluster.m[k]]),
              p |-> FALSE]
        ELSE [l |-> MapV([k \in DOMAIN local.m |->
                            IF k \in kept THEN at(k).l ELSE local.m[k]]),
              c |-> MapV([k \in kept |-> at(k).c]),
              p |-> \E k \in kept : at(k).p]

\* lines 124-165: the keys of cluster are visited once each; a key whose
\* local value is nil is deleted, the others go through the type switch
loop(local, cluster, shared) ==
    LET kept == {k \in DOMAIN cluster.m : Index(local, k).t # "nil"}
        at(k) == loopKey(local.m[k], cluster.m[k], k \in shared)
    IN  [l |-> MapV([k \in DOMAIN local.m |->
                       IF k \in kept THEN at(k).l ELSE local.m[k]]),
         c |-> MapV([k \in kept |-> at(k).c]),
         p |-> \E k \in kept : at(k).p]

subset(local, cluster) ==
    loop(local,
         rule2(local, rule1(local, cluster)),
         shared1(local) \cup shared2(local, rule1(local, cluster)))

(***************************************************************************)
(* The input trees of SpecReduce: every pair of manifest trees over TreeKeys   *)
(* and Atoms with at most MaxNodes nodes in all (a node is a nil, a        *)
(* scalar, a map or a slice), and the example pairs.                       *)
(***************************************************************************)
MaxNodes == 5

TreeKeys == <<"a", "apiVersion", "namespace">>

Atoms == {Nil, Scalar("1"), Scalar("2")}

RECURSIVE ValuesOfSize(_)
RECURSIVE MapsFrom(_, _)
RECURSIVE SeqsOfSize(_)
RECURSIVE MapSeqsOfSize(_)

\* the raw maps over the keys TreeKeys[i..] whose values have n nodes in all
MapsFrom(i, n) ==
    IF i > Len(TreeKeys)
    THEN IF n = 0 THEN {<<>>} ELSE {}
    ELSE MapsFrom(i + 1, n)
         \cup UNION {{Put(r, TreeKeys[i], v) :
                         v \in ValuesOfSize(j), r \in MapsFrom(i + 1, n - j)} :
                     j \in 1..n}

\* the sequences of values with n nodes in all
SeqsOfSize(n) ==
    IF n = 0
    THEN {<<>>}
    ELSE UNION {{<<v>> \o r : v \in ValuesOfSize(j), r \in SeqsOfSize(n - j)} :
                  j \in 1..n}

\* the sequences of maps with n nodes in all
MapSeqsOfSize(n) ==
    IF n = 0
    THEN {<<>>}
    ELSE UNION {{<<MapV(m)>> \o r :
                    m \in MapsFrom(1, j - 1), r \in MapSeqsOfSize(n - j)} :
                  j \in 1..n}

ValuesOfSize(n) ==
    IF n = 0
    THEN {}
    ELSE (IF n = 1 THEN Atoms ELSE {})
         \cup {MapV(m) : m \in MapsFrom(1, n - 1)}
         \cup {ListV(s) : s \in SeqsOfSize(n - 1)}
         \cup {MapListV(s) : s \in MapSeqsOfSize(n - 1)}

TopMaps(n) == {MapV(m) : m \in MapsFrom(1, n - 1)}

SmallPairs ==
    UNION {TopMaps(ij[1]) \X TopMaps(ij[2]) :
             ij \in {x \in (1..MaxNodes) \X (1..MaxNodes) : x[1] + x[2] <= MaxNodes}}

\* the trees of the worked example of the reducer
ExampleDesired ==
    MapV([k \in {"a", "b"} |->
            IF k = "a"
            THEN Scalar("1")
            ELSE MapV([j \in {"c", "d"} |-> IF j = "c" THEN Scalar("2") ELSE Scalar("3")])])

ExampleLive ==
    MapV([k \in {"a", "b", "f"} |->
            CASE k = "a" -> Scalar("1")
              [] k = "f" -> Scalar("7")
              [] OTHER -> MapV([j \in {"c", "e"} |->
                                  IF j = "c" THEN Scalar("9") ELSE Scalar("5")])])

ExampleReduced ==
    MapV([k \in {"a", "b"} |->
            IF k = "a" THEN Scalar("1") ELSE MapV([j \in {"c"} |-> Scalar("9")])])

One(k, v) == MapV([x \in {k} |-> v])

\* deeper pairs than SmallPairs holds: a map where desired holds a scalar, a
\* slice longer than desired's, maps inside slices, a namespace that is a map
ExamplePairs ==
    {<<ExampleDesired, ExampleLive>>,
     <<One("a", Scalar("1")), One("a", One("b", Scalar("1")))>>,
     <<One("a", ListV(<<One("a", Scalar("1"))>>)),
       One("a", ListV(<<MapV([x \in {"a", "b"} |-> Scalar("2")]),
                        One("b", Scalar("2")),
                        Scalar("2")>>))>>,
     <<One("a", MapListV(<<One("namespace", Scalar("1")), MapV(<<>>)>>)),
       One("a", MapListV(<<One("b", Scalar("2")), One("b", Scalar("2"))>>))>>,
     <<One("namespace", One("a", One("b", Nil))), One("namespace", Scalar("2"))>>}

InputPairs == SmallPairs \cup ExamplePairs

(***************************************************************************)
(* Text.  A string is a sequence of tokens; "\n" is the newline.           *)
(***************************************************************************)
\* every key of the model, in the order the serializer writes them
KeyOrder ==
    <<"a", "apiVersion", "b", "c", "d", "e", "f", "kind", "metadata", "name",
      "namespace">>

RECURSIVE ser(_)
RECURSIVE serKeys(_, _)
RECURSIVE serSeq(_, _)

serKeys(m, i) ==
    IF i > Len(KeyOrder)
    THEN <<>>
    ELSE (IF KeyOrder[i] \in DOMAIN m
          THEN <<KeyOrder[i], ":">> \o ser(m[KeyOrder[i]]) \o <<",">>
          ELSE <<>>)
         \o serKeys(m, i + 1)

serSeq(s, i) ==
    IF i > Len(s) THEN <<>> ELSE ser(s[i]) \o <<",">> \o serSeq(s, i + 1)

ser(v) ==
    CASE v.t = "nil" -> <<"null">>
      [] v.t = "scalar" -> <<v.x>>
      [] v.t = "map" ->
           IF DOMAIN v.m = {} THEN <<"{}">> ELSE <<"{">> \o serKeys(v.m, 1) \o <<"}">>
      [] OTHER -> <<"[">> \o serSeq(v.s, 1) \o <<"]">>

\* manifest.Manifest.String(): the document and a final newline, so that the
\* empty object reads "{}\n"
String(m) == ser(m) \o <<"\n">>

\* the string a manifest accessor returns: "" when the field is no string
str(v) == IF v.t = "scalar" THEN v.x ELSE ""

\* util.DiffName: the label of a manifest, from its identifying attributes
DiffName(m) ==
    <<str(Index(m, "apiVersion")), ".", str(Index(m, "kind")), ".",
      str(IF Index(m, "metadata").t = "map"
          THEN Index(Index(m, "metadata"), "namespace") ELSE Nil), ".",
      str(IF Index(m, "metadata").t = "map"
          THEN Index(Index(m, "metadata"), "name") ELSE Nil)>>

RECURSIVE TrimRight(_)

\* strings.TrimRight(s, "\n"): every trailing newline is removed
TrimRight(s) ==
    IF Len(s) > 0 /\ s[Len(s)] = "\n" THEN TrimRight(SubSeq(s, 1, Len(s) - 1)) ELSE s

\* strings.TrimSuffix(s, "\n")
TrimSuffix(s) ==
    IF Len(s) > 0 /\ s[Len(s)] = "\n" THEN SubSeq(s, 1, Len(s) - 1) ELSE s

\* errors: the chain of messages, outermost first; the nil error is empty
NoErr == <<>>

\* errors.Wrap(err, msg), which is nil for a nil err
Wrap(err, msg) == IF err = NoErr THEN NoErr ELSE <<msg>> \o err

\* *string: the nil pointer, or a pointer to s
NilStr == [nil |-> TRUE, s |-> <<>>]

StrPtr(s) == [nil |-> FALSE, s |-> s]

\* difference, lines 13-17
Difference(name, local, cluster) == [name |-> name, local |-> local, cluster |-> cluster]

NoDiff == Difference(<<>>, <<>>, <<>>)

\* subsetDiff without lines 99-101: the text of the empty object is kept
subsetDiffNoNormalize(m, get) ==
    IF get.k = "err"
    THEN [diff |-> NoDiff, err |-> Wrap(get.e, "getting state from cluster"), m |-> m]
    ELSE LET res == IF get.k = "notfound" THEN MapV(<<>>) ELSE get.res
             r == subset(m, res)
         IN  [diff |-> Difference(DiffName(m), String(r.c), String(m)),
              err |-> NoErr,
              m |-> r.l]

(***************************************************************************)
(* subsetDiff, lines 80-108, once c.Get has returned.  get is the outcome  *)
(* of c.Get: [k |-> "ok", res |-> the tree], [k |-> "notfound"] or         *)
(* [k |-> "err", e |-> the error].  The result is the returned pair and    *)
(* the manifest as the call leaves it.                                     *)
(***************************************************************************)
subsetDiff(m, get) ==
    IF get.k = "err"
    THEN [diff |-> NoDiff, err |-> Wrap(get.e, "getting state from cluster"), m |-> m]
    ELSE LET res == IF get.k = "notfound" THEN MapV(<<>>) ELSE get.res
             local == String(m)
             r == subset(m, res)
             cluster == String(r.c)
         IN  [diff |-> Difference(DiffName(m),
                                  IF cluster = <<"{}", "\n">> THEN <<>> ELSE cluster,
                                  local),
              err |-> NoErr,
              m |-> r.l]

(***************************************************************************)
(* The environment of one call of the differ: the manifests it may be      *)
(* given, what c.Get may return and what util.DiffStr may return.          *)
(***************************************************************************)
MaxManifests == 2

ManifestA ==
    MapV([k \in {"kind", "metadata", "a"} |->
            CASE k = "kind" -> Scalar("K")
              [] k = "a" -> Scalar("1")
              [] OTHER -> MapV([j \in {"name", "namespace"} |->
                                  IF j = "name" THEN Scalar("x") ELSE Scalar("1")])])

\* a manifest with a namespace field at its top level
ManifestB ==
    MapV([k \in {"kind", "metadata", "namespace"} |->
            CASE k = "kind" -> Scalar("K")
              [] k = "namespace" -> Scalar("2")
              [] OTHER -> MapV([j \in {"name"} |-> Scalar("y")])])

Manifests == {ManifestA, ManifestB}

\* a live object that reduces to ManifestA
LiveSame ==
    MapV([k \in {"kind", "metadata", "a", "f"} |->
            CASE k = "kind" -> Scalar("K")
              [] k = "a" -> Scalar("1")
              [] k = "f" -> Scalar("7")
              [] OTHER -> MapV([j \in {"name", "namespace", "f"} |->
                                  CASE j = "name" -> Scalar("x")
                                    [] j = "namespace" -> Scalar("1")
                                    [] OTHER -> Scalar("7")])])

\* a live object that differs from both manifests in a field they set
LiveOther ==
    MapV([k \in {"kind", "metadata", "a"} |->
            CASE k = "kind" -> Scalar("K")
              [] k = "a" -> Scalar("2")
              [] OTHER -> MapV([j \in {"name"} |-> Scalar("z")])])

ClusterTrees == {LiveSame, LiveOther}

FetchErrors == {<<"e1">>, <<"e2">>}

GetOutcomes ==
    {[k |-> "ok", res |-> t, e |-> NoErr] : t \in ClusterTrees}
    \cup {[k |-> "notfound", res |-> Nil, e |-> NoErr]}
    \cup {[k |-> "err", res |-> Nil, e |-> e] : e \in FetchErrors}

\* the non-empty texts of util.DiffStr
DiffTexts == {<<"d">>, <<"\n">>, <<"d", "\n">>}

RenderError == <<"diff failed">>

\* util.DiffStr(name, a, b): the empty text for equal texts, some non-empty
\* text otherwise, or an error
DiffStr(name, a, b) ==
    {[s |-> t, err |-> NoErr] : t \in (IF a = b THEN {<<>>} ELSE DiffTexts)}
    \cup {[s |-> <<>>, err |-> RenderError]}

ManifestLists ==
    UNION {[1..n -> Manifests] : n \in 0..MaxManifests}

VARIABLES
    desired0, live0,    \* SpecReduce: the arguments of subset as given
    desired, live,      \* SpecReduce: the two trees as they are now
    shared,             \* SpecReduce: the keys of live that hold desired's own object
    reduced,            \* SpecReduce: what the first call returned
    rpc,                \* SpecReduce: position in subset
    state0,             \* history: the manifest list as the caller gave it
    state,              \* the manifest list (the argument, line 24)
    opc,                \* position of the differ
    launched,           \* goroutines started so far (line 31)
    i,                  \* the counter of the collecting loop (line 35)
    docs,               \* line 25
    lastErr,            \* line 34
    resultClosed,       \* line 43 has run
    errClosed,          \* line 44 has run
    diffs,              \* line 50
    ret,                \* the returned pair
    wpc,                \* position of each goroutine
    wdiff,              \* what subsetDiff returned to each goroutine (line 72)
    werr,
    fetched,            \* history: the outcome of each goroutine's c.Get
    sent,               \* history: the channels each goroutine has sent on
    calls,              \* history: the calls of util.DiffStr and their results
    order               \* history: the goroutines in the order their sends were received

rvars == <<desired0, live0, desired, live, shared, reduced, rpc>>

ovars ==
    <<state0, state, opc, launched, i, docs, lastErr, resultClosed, errClosed, diffs, ret,
      wpc, wdiff, werr, fetched, sent, calls, order>>

vars == <<rvars, ovars>>

N == Len(state)

Workers == 1..N

NoRet == [diff |-> NilStr, err |-> NoErr]

\* the differ is not running
OrchIdle ==
    /\ state0 = <<>>
    /\ state = <<>>
    /\ opc = "off"
    /\ launched = 0
    /\ i = 0
    /\ docs = <<>>
    /\ lastErr = NoErr
    /\ resultClosed = FALSE
    /\ errClosed = FALSE
    /\ diffs = <<>>
    /\ ret = NoRet
    /\ wpc = <<>>
    /\ wdiff = <<>>
    /\ werr = <<>>
    /\ fetched = <<>>
    /\ sent = <<>>
    /\ calls = <<>>
    /\ order = <<>>

\* subset is not running
ReduceIdle ==
    /\ desired0 = Nil
    /\ live0 = Nil
    /\ desired = Nil
    /\ live = Nil
    /\ shared = {}
    /\ reduced = Nil
    /\ rpc = "off"

(***************************************************************************)
(* SpecReduce: subset step by step, then once more on its own result.      *)
(***************************************************************************)
InitReduce ==
    /\ \E p \in InputPairs : desired0 = p[1] /\ live0 = p[2]
    /\ desired = desired0
    /\ live = live0
    /\ shared = {}
    /\ reduced = Nil
    /\ rpc = "start"
    /\ OrchIdle

\* lines 115-117
Rule1 ==
    /\ rpc = "start"
    /\ live' = rule1(desired, live)
    /\ shared' = shared1(desired)
    /\ rpc' = "rule1"
    /\ UNCHANGED <<desired0, live0, desired, reduced, ovars>>

\* lines 120-122
Rule2 ==
    /\ rpc = "rule1"
    /\ live' = rule2(desired, live)
    /\ shared' = shared \cup shared2(desired, live)
    /\ rpc' = "rule2"
    /\ UNCHANGED <<desired0, live0, desired, reduced, ovars>>

\* lines 124-165
Loop ==
    /\ rpc = "rule2"
    /\ LET r == loop(desired, live, shared)
       IN  /\ ~r.p
           /\ desired' = r.l
           /\ live' = r.c
           /\ reduced' = r.c
    /\ rpc' = "reduced"
    /\ UNCHANGED <<desired0, live0, shared, ovars>>

\* line 138 indexes past the end of local's slice: the call panics
LoopPanic ==
    /\ rpc = "rule2"
    /\ loop(desired, live, shared).p
    /\ rpc' = "panic"
    /\ UNCHANGED <<desired0, live0, desired, live, shared, reduced, ovars>>

\* a second call, subset(desired, subset(desired, live))
Again ==
    /\ rpc = "reduced"
    /\ LET r == subset(desired, live)
       IN  /\ ~r.p
           /\ desired' = r.l
           /\ live' = r.c
    /\ rpc' = "again"
    /\ UNCHANGED <<desired0, live0, shared, reduced, ovars>>

NextReduce == Rule1 \/ Rule2 \/ Loop \/ LoopPanic \/ Again

SpecReduce == InitReduce /\ [][NextReduce]_vars

(***************************************************************************)
(* Spec: one call of the differ, lines 24-68.  The channels are            *)
(* unbuffered: a send and the receive that takes it are one step.          *)
(***************************************************************************)
Init ==
    /\ state0 \in ManifestLists
    /\ state = state0
    /\ opc = IF Len(state) = 0 THEN "collect" ELSE "launch"
    /\ launched = 0
    /\ i = 0
    /\ docs = <<>>
    /\ lastErr = NoErr
    /\ resultClosed = FALSE
    /\ errClosed = FALSE
    /\ diffs = <<>>
    /\ ret = NoRet
    /\ wpc = [w \in 1..Len(state) |-> "none"]
    /\ wdiff = [w \in 1..Len(state) |-> NoDiff]
    /\ werr = [w \in 1..Len(state) |-> NoErr]
    /\ fetched = [w \in 1..Len(state) |-> "none"]
    /\ sent = [w \in 1..Len(state) |-> <<>>]
    /\ calls = <<>>
    /\ order = <<>>
    /\ ReduceIdle

\* lines 30-32: one iteration, starting the goroutine of the next manifest
Launch ==
    /\ opc = "launch"
    /\ launched < N
    /\ launched' = launched + 1
    /\ wpc' = [wpc EXCEPT ![launched + 1] = "get"]
    /\ opc' = IF launched + 1 = N THEN "collect" ELSE "launch"
    /\ UNCHANGED <<order, state0, state, i, docs, lastErr, resultClosed, errClosed, diffs, ret,
                   wdiff, werr, fetched, sent, calls, rvars>>

\* lines 72-76 and 80-108 in goroutine w: c.Get returns get, subsetDiff
\* returns, and the goroutine reaches its send
Fetch(w, get) ==
    /\ wpc[w] = "get"
    /\ LET r == subsetDiff(state[w], get)
       IN  /\ wdiff' = [wdiff EXCEPT ![w] = r.diff]
           /\ werr' = [werr EXCEPT ![w] = r.err]
           /\ state' = [state EXCEPT ![w] = r.m]
           /\ wpc' = [wpc EXCEPT ![w] = IF r.err # NoErr THEN "sendErr" ELSE "sendRes"]
    /\ fetched' = [fetched EXCEPT ![w] = get.k]
    /\ UNCHANGED <<order, state0, opc, launched, i, docs, lastErr, resultClosed, errClosed,
                   diffs, ret, sent, calls, rvars>>

\* line 84 in goroutine w: this call of c.Get never returns
Hang(w) ==
    /\ wpc[w] = "get"
    /\ wpc' = [wpc EXCEPT ![w] = "stuck"]
    /\ fetched' = [fetched EXCEPT ![w] = "never"]
    /\ UNCHANGED <<order, state0, state, opc, launched, i, docs, lastErr, resultClosed,
                   errClosed, diffs, ret, wdiff, werr, sent, calls, rvars>>

\* RecvResult that takes the records in input order only, as a loop that
\* waits for each goroutine in turn would
RecvResultInOrder(w) ==
    /\ opc = "collect"
    /\ i < N
    /\ w = i + 1
    /\ wpc[w] = "sendRes"
    /\ ~resultClosed
    /\ docs' = Append(docs, wdiff[w])
    /\ i' = i + 1
    /\ wpc' = [wpc EXCEPT ![w] = "done"]
    /\ sent' = [sent EXCEPT ![w] = Append(@, "resultCh")]
    /\ order' = Append(order, w)
    /\ UNCHANGED <<state0, state, opc, launched, lastErr, resultClosed, errClosed, diffs,
                   ret, wdiff, werr, fetched, calls, rvars>>

\* RecvResult that forgets the error: a record received after an error
\* clears lastErr
RecvResultClearsErr(w) ==
    /\ opc = "collect"
    /\ i < N
    /\ wpc[w] = "sendRes"
    /\ ~resultClosed
    /\ docs' = Append(docs, wdiff[w])
    /\ lastErr' = NoErr
    /\ i' = i + 1
    /\ wpc' = [wpc EXCEPT ![w] = "done"]
    /\ sent' = [sent EXCEPT ![w] = Append(@, "resultCh")]
    /\ order' = Append(order, w)
    /\ UNCHANGED <<state0, state, opc, launched, resultClosed, errClosed, diffs, ret,
                   wdiff, werr, fetched, calls, rvars>>

\* line 77 in goroutine w and lines 37-38
RecvResult(w) ==
    /\ opc = "collect"
    /\ i < N
    /\ wpc[w] = "sendRes"
    /\ ~resultClosed
    /\ docs' = Append(docs, wdiff[w])
    /\ i' = i + 1
    /\ wpc' = [wpc EXCEPT ![w] = "done"]
    /\ sent' = [sent EXCEPT ![w] = Append(@, "resultCh")]
    /\ order' = Append(order, w)
    /\ UNCHANGED <<state0, state, opc, launched, lastErr, resultClosed, errClosed, diffs,
                   ret, wdiff, werr, fetched, calls, rvars>>

\* RecvErr that keeps the first error: lastErr is set only while it is nil
RecvErrKeepFirst(w) ==
    /\ opc = "collect"
    /\ i < N
    /\ wpc[w] = "sendErr"
    /\ ~errClosed
    /\ lastErr' = IF lastErr = NoErr THEN werr[w] ELSE lastErr
    /\ i' = i + 1
    /\ wpc' = [wpc EXCEPT ![w] = "done"]
    /\ sent' = [sent EXCEPT ![w] = Append(@, "errCh")]
    /\ order' = Append(order, w)
    /\ UNCHANGED <<state0, state, opc, launched, docs, resultClosed, errClosed, diffs, ret,
                   wdiff, werr, fetched, calls, rvars>>

\* RecvErr in a loop that counts the records only: an error received does
\* not advance i
RecvErrNoCount(w) ==
    /\ opc = "collect"
    /\ i < N
    /\ wpc[w] = "sendErr"
    /\ ~errClosed
    /\ lastErr' = werr[w]
    /\ wpc' = [wpc EXCEPT ![w] = "done"]
    /\ sent' = [sent EXCEPT ![w] = Append(@, "errCh")]
    /\ order' = Append(order, w)
    /\ UNCHANGED <<state0, state, opc, launched, i, docs, resultClosed, errClosed,
                   diffs, ret, wdiff, werr, fetched, calls, rvars>>

\* lines 74-75 in goroutine w and lines 39-40
RecvErr(w) ==
    /\ opc = "collect"
    /\ i < N
    /\ wpc[w] = "sendErr"
    /\ ~errClosed
    /\ lastErr' = werr[w]
    /\ i' = i + 1
    /\ wpc' = [wpc EXCEPT ![w] = "done"]
    /\ sent' = [sent EXCEPT ![w] = Append(@, "errCh")]
    /\ order' = Append(order, w)
    /\ UNCHANGED <<state0, state, opc, launched, docs, resultClosed, errClosed, diffs, ret,
                   wdiff, werr, fetched, calls, rvars>>

\* Close in a differ that stops collecting at the first error
CloseOnError ==
    /\ opc = "collect"
    /\ i = N \/ lastErr # NoErr
    /\ resultClosed' = TRUE
    /\ errClosed' = TRUE
    /\ opc' = "closed"
    /\ UNCHANGED <<order, state0, state, launched, i, docs, lastErr, diffs, ret, wpc, wdiff,
                   werr, fetched, sent, calls, rvars>>

\* Close in a differ that stops waiting for a c.Get that does not return
CloseOnTimeout ==
    /\ opc = "collect"
    /\ i = N \/ \E w \in Workers : wpc[w] = "stuck"
    /\ resultClosed' = TRUE
    /\ errClosed' = TRUE
    /\ opc' = "closed"
    /\ UNCHANGED <<order, state0, state, launched, i, docs, lastErr, diffs, ret, wpc, wdiff,
                   werr, fetched, sent, calls, rvars>>

\* Close after a loop that runs once too often (i <= len(state))
CloseOffByOne ==
    /\ opc = "collect"
    /\ i = N + 1
    /\ resultClosed' = TRUE
    /\ errClosed' = TRUE
    /\ opc' = "closed"
    /\ UNCHANGED <<order, state0, state, launched, i, docs, lastErr, diffs, ret, wpc, wdiff,
                   werr, fetched, sent, calls, rvars>>

\* lines 43-44, once the collecting loop has run len(state) times
Close ==
    /\ opc = "collect"
    /\ i = N
    /\ resultClosed' = TRUE
    /\ errClosed' = TRUE
    /\ opc' = "closed"
    /\ UNCHANGED <<order, state0, state, launched, i, docs, lastErr, diffs, ret, wpc, wdiff, werr,
                   fetched, sent, calls, rvars>>

\* ReturnErr that returns the worker's error as it came, without line 47's Wrap
ReturnErrUnwrapped ==
    /\ opc = "closed"
    /\ lastErr # NoErr
    /\ ret' = [diff |-> NilStr, err |-> lastErr]
    /\ opc' = "returned"
    /\ UNCHANGED <<order, state0, state, launched, i, docs, lastErr, resultClosed, errClosed,
                   diffs, wpc, wdiff, werr, fetched, sent, calls, rvars>>

\* lines 46-48
ReturnErr ==
    /\ opc = "closed"
    /\ lastErr # NoErr
    /\ ret' = [diff |-> NilStr, err |-> Wrap(lastErr, "calculating subset")]
    /\ opc' = "returned"
    /\ UNCHANGED <<order, state0, state, launched, i, docs, lastErr, resultClosed, errClosed, diffs,
                   wpc, wdiff, werr, fetched, sent, calls, rvars>>

\* the record of the next iteration of the loop of lines 51-60
NextDoc == docs[Len(calls) + 1]

\* lines 51-60: one iteration in which util.DiffStr returns no error
Render ==
    /\ opc = "closed"
    /\ lastErr = NoErr
    /\ Len(calls) < Len(docs)
    /\ \E out \in DiffStr(NextDoc.name, NextDoc.local, NextDoc.cluster) :
          /\ out.err = NoErr
          /\ diffs' = diffs \o (IF out.s # <<>> THEN out.s \o <<"\n">> ELSE out.s)
          /\ calls' = Append(calls, [d |-> NextDoc, s |-> out.s, err |-> out.err])
    /\ UNCHANGED <<order, state0, state, opc, launched, i, docs, lastErr, resultClosed, errClosed,
                   ret, wpc, wdiff, werr, fetched, sent, rvars>>

\* lines 52-55: util.DiffStr returns an error
RenderErr ==
    /\ opc = "closed"
    /\ lastErr = NoErr
    /\ Len(calls) < Len(docs)
    /\ \E out \in DiffStr(NextDoc.name, NextDoc.local, NextDoc.cluster) :
          /\ out.err # NoErr
          /\ ret' = [diff |-> NilStr, err |-> Wrap(out.err, "invoking diff")]
          /\ calls' = Append(calls, [d |-> NextDoc, s |-> out.s, err |-> out.err])
    /\ opc' = "returned"
    /\ UNCHANGED <<order, state0, state, launched, i, docs, lastErr, resultClosed, errClosed, diffs,
                   wpc, wdiff, werr, fetched, sent, rvars>>

\* Finish without lines 63-65: the address of diffs is returned even when
\* diffs is empty
FinishNoNilCheck ==
    /\ opc = "closed"
    /\ lastErr = NoErr
    /\ Len(calls) = Len(docs)
    /\ diffs' = TrimSuffix(diffs)
    /\ ret' = [diff |-> StrPtr(TrimSuffix(diffs)), err |-> NoErr]
    /\ opc' = "returned"
    /\ UNCHANGED <<order, state0, state, launched, i, docs, lastErr, resultClosed, errClosed,
                   wpc, wdiff, werr, fetched, sent, calls, rvars>>

\* lines 61-67
Finish ==
    /\ opc = "closed"
    /\ lastErr = NoErr
    /\ Len(calls) = Len(docs)
    /\ diffs' = TrimSuffix(diffs)
    /\ ret' = IF TrimSuffix(diffs) = <<>>
              THEN [diff |-> NilStr, err |-> NoErr]
              ELSE [diff |-> StrPtr(TrimSuffix(diffs)), err |-> NoErr]
    /\ opc' = "returned"
    /\ UNCHANGED <<order, state0, state, launched, i, docs, lastErr, resultClosed, errClosed, wpc,
                   wdiff, werr, fetched, sent, calls, rvars>>

Next ==
    \/ Launch
    \/ \E w \in Workers, get \in GetOutcomes : Fetch(w, get)
    \/ \E w \in Workers : Hang(w)
    \/ \E w \in Workers : RecvResult(w)
    \/ \E w \in Workers : RecvErr(w)
    \/ Close
    \/ ReturnErr
    \/ Render
    \/ RenderErr
    \/ Finish

Spec == Init /\ [][Next]_vars

\* Spec with the scheduler's fairness: a step that can be taken is taken.  A
\* c.Get that never returns is a goroutine at "stuck", which has no step.
FairSpec == Spec /\ WF_vars(Next)

(***************************************************************************)
(* Properties of subset, checked under SpecReduce.                         *)
(***************************************************************************)
SetIn(mv, k) == Index(mv, k).t # "nil"

Injected == {"namespace", "apiVersion"}

RECURSIVE AllKeysIn(_, _)

\* every key of rv, at every level, is a key of dv at the same place or an
\* injected key; dv is Nil where desired has nothing at that place
AllKeysIn(rv, dv) ==
    CASE rv.t = "map" ->
           \A k \in DOMAIN rv.m :
              /\ k \in Injected \/ (dv.t = "map" /\ k \in DOMAIN dv.m)
              /\ AllKeysIn(rv.m[k], IF dv.t = "map" THEN Index(dv, k) ELSE Nil)
      [] rv.t \in {"list", "maplist"} ->
           \A n \in DOMAIN rv.s :
              AllKeysIn(rv.s[n],
                        IF dv.t \in {"list", "maplist"} /\ n \in DOMAIN dv.s
                        THEN dv.s[n] ELSE Nil)
      [] OTHER -> TRUE

RECURSIVE KeysWithin(_, _)

\* the places subset reaches: a map under a key that holds a map in both
\* trees, or at the same index of two slices of the same type
ValueWithin(rv, dv) ==
    CASE rv.t = "map" /\ dv.t = "map" -> KeysWithin(rv, dv)
      [] rv.t = "maplist" /\ dv.t = "maplist" ->
           \A n \in (DOMAIN rv.s) \cap (DOMAIN dv.s) : KeysWithin(rv.s[n], dv.s[n])
      [] rv.t = "list" /\ dv.t = "list" ->
           \A n \in (DOMAIN rv.s) \cap (DOMAIN dv.s) :
              (rv.s[n].t = "map" /\ dv.s[n].t = "map") => KeysWithin(rv.s[n], dv.s[n])
      [] OTHER -> TRUE

KeysWithin(r, d) ==
    \A k \in DOMAIN r.m : k \in DOMAIN d.m /\ ValueWithin(r.m[k], d.m[k])

\* C4 as stated: after reduce every key of the reduced tree, at every nesting
\* level, is a key of desired at the same place, namespace and apiVersion
\* excepted.
C4_Original == rpc = "reduced" => AllKeysIn(live, desired0)

\* C4, amended: after reduce every key of the reduced tree at a level subset
\* reaches (a map under a key that holds a map in desired too, or at the same
\* index of two slices of the same type) is a key of desired at the same
\* place; namespace and apiVersion need no exception.
C4_KeysWithinDesired == rpc = "reduced" => KeysWithin(live, desired0)

C4_Witness ==
    /\ rpc = "reduced"
    /\ \E k \in DOMAIN live.m :
          /\ live.m[k].t = "map"
          /\ live0.m[k].t = "map"
          /\ desired0.m[k].t = "map"
          /\ DOMAIN live.m[k].m # DOMAIN live0.m[k].m

EmptyMap == MapV(<<>>)

\* C5 as stated: reduce(d, {}) = {} for every desired tree d.
C5_Original == (rpc = "reduced" /\ live0 = EmptyMap) => live = EmptyMap

\* C5, amended: reduce(d, {}) = {} for every desired tree d that sets no
\* namespace; when d sets a namespace the result holds that one key, with
\* desired's value.  An apiVersion of d is never copied into an empty tree.
C5_EmptyLive ==
    (rpc = "reduced" /\ live0 = EmptyMap)
        => live = IF SetIn(desired0, "namespace")
                  THEN One("namespace", desired.m["namespace"])
                  ELSE EmptyMap

C5_Witness ==
    /\ rpc = "reduced"
    /\ live0 = EmptyMap
    /\ SetIn(desired0, "apiVersion")
    /\ SetIn(desired0, "a")
    /\ ~SetIn(desired0, "namespace")
    /\ live = EmptyMap

\* C6: a second reduction of an already reduced tree against the same desired
\* tree changes nothing, and it is defined whenever the first one was.
C6_Idempotent ==
    /\ rpc = "again" => live = reduced
    /\ rpc = "reduced" => ~subset(desired, live).p

C6_Witness ==
    /\ rpc = "again"
    /\ reduced # live0
    /\ \E k \in DOMAIN reduced.m :
          reduced.m[k].t = "map" /\ reduced.m[k] # live0.m[k]

RECURSIVE KeepsLive(_, _, _, _)

\* rule 1 or rule 2 has written key k of the map l0, given the map d
Written(k, l0, d) ==
    \/ k = "namespace" /\ SetIn(d, "namespace")
    \/ k = "apiVersion" /\ SetIn(d, "apiVersion") /\ SetIn(l0, "apiVersion")

\* every key of r is a key of l0; a scalar keeps l0's value and a map under
\* a key that holds a map in d too is reduced in turn.  An exempt key that
\* rule 1 or 2 has written holds d's value instead.
KeepsLive(r, l0, d, exempt) ==
    \A k \in DOMAIN r.m :
       IF k \in exempt /\ Written(k, l0, d)
       THEN r.m[k] = Index(d, k)
       ELSE /\ k \in DOMAIN l0.m
            /\ IF l0.m[k].t = "map" /\ Index(d, k).t = "map"
               THEN r.m[k].t = "map" /\ KeepsLive(r.m[k], l0.m[k], d.m[k], exempt)
               ELSE l0.m[k].t \in {"scalar", "nil"} => r.m[k] = l0.m[k]

C9_Rule1Namespace ==
    /\ rpc = "rule1"
          => /\ \A k \in ((DOMAIN live.m) \cup (DOMAIN live0.m)) \ {"namespace"} :
                   /\ k \in DOMAIN live.m <=> k \in DOMAIN live0.m
                   /\ Index(live, k) = Index(live0, k)
             /\ IF SetIn(desired0, "namespace")
                THEN /\ "namespace" \in DOMAIN live.m
                     /\ live.m["namespace"] = desired0.m["namespace"]
                ELSE live = live0
    /\ (rpc = "reduced" /\ SetIn(desired0, "namespace"))
          => /\ "namespace" \in DOMAIN live.m
             /\ live.m["namespace"] = desired.m["namespace"]

C9_Witness ==
    /\ rpc = "reduced"
    /\ SetIn(desired0, "namespace")
    /\ "namespace" \notin DOMAIN live0.m
    /\ "namespace" \in DOMAIN live.m
    /\ live.m["namespace"] = desired0.m["namespace"]

(***************************************************************************)
(* Properties of the differ and its workers, checked under Spec.           *)
(***************************************************************************)
FetchFailed == \E w \in Workers : fetched[w] = "err"

RenderFailed == \E n \in DOMAIN calls : calls[n].err # NoErr

\* C1: once the fetch of some worker has failed with an error other than
\* not-found the renderer is never called, and a call of the differ in which
\* a fetch or a renderer call failed returns a nil string and a non-nil error.
C1_NoPartialSuccess ==
    /\ FetchFailed => calls = <<>>
    /\ (opc = "returned" /\ (FetchFailed \/ RenderFailed))
          => ret.diff = NilStr /\ ret.err # NoErr

C1_Witness ==
    /\ opc = "returned"
    /\ N >= 2
    /\ FetchFailed
    /\ docs # <<>>
    /\ ret.diff = NilStr
    /\ ret.err # NoErr

\* C2: the differ returns (nil, nil), (a string, nil) or (nil, an error);
\* (nil, nil) exactly when no fetch and no renderer call failed and every
\* renderer output was empty; a returned string is never empty and never
\* comes with an error.
C2_ThreeOutcomes ==
    opc = "returned"
        => /\ ~(~ret.diff.nil /\ ret.err # NoErr)
           /\ ~ret.diff.nil => ret.diff.s # <<>>
           /\ (ret.diff.nil /\ ret.err = NoErr)
                 <=> /\ ~FetchFailed
                     /\ ~RenderFailed
                     /\ \A n \in DOMAIN calls : calls[n].s = <<>>

C2_Witness ==
    /\ opc = "returned"
    /\ ret = NoRet
    /\ calls # <<>>

\* C3: on the empty list the differ starts no worker, receives nothing, never
\* calls the renderer, always has a next step until it has returned, and
\* returns (nil, nil).
C3_EmptyList ==
    N = 0
        => /\ launched = 0
           /\ i = 0
           /\ docs = <<>>
           /\ calls = <<>>
           /\ opc # "returned" => ENABLED Next
           /\ opc = "returned" => ret = NoRet

C3_Witness ==
    /\ state0 = <<>>
    /\ opc = "returned"
    /\ ret = NoRet

\* the tree that holds the namespace of manifest m and nothing else
OnlyNamespace(m) == One("namespace", m.m["namespace"])

\* what C8 says of a worker apart from its reduced-live text: a not-found
\* sends a record on resultCh whose other text is the serialized manifest
\* and which the renderer is given like any other; another fetch error sends
\* an error on errCh and makes no record
WorkerOutcome(w) ==
    /\ fetched[w] = "notfound"
          => /\ wpc[w] \in {"sendRes", "done"}
             /\ werr[w] = NoErr
             /\ sent[w] \in {<<>>, <<"resultCh">>}
             /\ wdiff[w].name = DiffName(state0[w])
             /\ wdiff[w].cluster = String(state0[w])
             /\ wpc[w] = "done" => \E n \in DOMAIN docs : docs[n] = wdiff[w]
    /\ fetched[w] = "err"
          => /\ wpc[w] \in {"sendErr", "done"}
             /\ werr[w] # NoErr
             /\ wdiff[w] = NoDiff
             /\ sent[w] \in {<<>>, <<"errCh">>}

\* every record collected is given to the renderer when the differ returns
\* without an error
AllRendered ==
    (opc = "returned" /\ ret.err = NoErr)
        => /\ Len(calls) = Len(docs)
           /\ \A n \in DOMAIN calls : calls[n].d = docs[n]

\* C8 as stated: the reduced-live text of a not-found manifest is the empty
\* string.
C8_Original ==
    /\ AllRendered
    /\ \A w \in Workers :
          /\ WorkerOutcome(w)
          /\ fetched[w] = "notfound" => wdiff[w].local = <<>>

\* C8, amended: the reduced-live text of a not-found manifest is the empty
\* string when the manifest sets no namespace at its top level, and else the
\* serialization of the tree that holds that namespace alone; the rest of C8
\* as stated.
C8_NotFound ==
    /\ AllRendered
    /\ \A w \in Workers :
          /\ WorkerOutcome(w)
          /\ fetched[w] = "notfound"
                => wdiff[w].local = IF SetIn(state0[w], "namespace")
                                    THEN String(OnlyNamespace(state[w]))
                                    ELSE <<>>

C8_Witness ==
    /\ opc = "returned"
    /\ ret.err = NoErr
    /\ \E w \in Workers :
          /\ fetched[w] = "notfound"
          /\ ~SetIn(state0[w], "namespace")
          /\ wdiff[w].local = <<>>
          /\ \E n \in DOMAIN calls : calls[n].d = wdiff[w]

\* the records collected are those of the workers, one each
OnePerManifest ==
    \E f \in [Workers -> Workers] :
       /\ \A v, w \in Workers : f[v] = f[w] => v = w
       /\ \A w \in Workers : docs[f[w]] = wdiff[w]

\* C10: N workers are started; a worker sends at most once, on resultCh if
\* its subsetDiff succeeded and on errCh if not; the differ has received as
\* often as workers have sent, and when it closes the channels N workers
\* were started, each has sent once and N receives were made; with no failed
\* worker the records collected are then one per manifest.
C10_FanInAccounting ==
    /\ launched <= N
    /\ \A w \in Workers :
          /\ Len(sent[w]) <= 1
          /\ wpc[w] = "done" <=> Len(sent[w]) = 1
          /\ sent[w] = <<"resultCh">> => fetched[w] \in {"ok", "notfound"}
          /\ sent[w] = <<"errCh">> => fetched[w] = "err"
    /\ i = Cardinality({w \in Workers : Len(sent[w]) = 1})
    /\ Len(docs) = Cardinality({w \in Workers : sent[w] = <<"resultCh">>})
    /\ opc \in {"closed", "returned"}
          => /\ launched = N
             /\ i = N
             /\ \A w \in Workers : Len(sent[w]) = 1
             /\ ~FetchFailed => (Len(docs) = N /\ OnePerManifest)

C10_Witness ==
    /\ opc = "closed"
    /\ N >= 2
    /\ ~FetchFailed
    /\ Len(docs) = N
    /\ \E w \in Workers : fetched[w] = "notfound"
    /\ \E w \in Workers : fetched[w] = "ok"

AllDone == \A w \in Workers : wpc[w] = "done"

SomeStuck == \E w \in Workers : wpc[w] = "stuck"

\* C11: in every interleaving the channels are closed only when every worker
\* has completed its send, so that no worker is running or blocked on a send
\* at or after the close; the two channels are closed together, and the close
\* can be taken only while both are open, so each is closed once.
C11_CloseAfterAllSends ==
    /\ (resultClosed \/ errClosed) => (AllDone /\ i = N)
    /\ resultClosed <=> errClosed
    /\ resultClosed <=> opc \in {"closed", "returned"}
    /\ ENABLED Close => (~resultClosed /\ ~errClosed)

C11_Witness ==
    /\ opc = "returned"
    /\ N >= 2
    /\ FetchFailed
    /\ \E w \in Workers : fetched[w] \in {"ok", "notfound"}
    /\ resultClosed
    /\ errClosed
    /\ AllDone

\* C12: under fair scheduling the differ returns, with every worker
\* terminated, unless some c.Get never returns; a c.Get that never returns
\* stays so, and the differ then never leaves its loops: it comes to the
\* collecting loop and stays there for ever, with both channels open, whatever
\* the other workers have reported.
C12_Termination ==
    /\ <>((opc = "returned" /\ AllDone) \/ SomeStuck)
    /\ [](SomeStuck => opc \in {"launch", "collect"})
    /\ [][SomeStuck => SomeStuck']_vars
    /\ SomeStuck ~> [](opc = "collect" /\ i < N /\ ~resultClosed /\ ~errClosed)

C12_Witness ==
    /\ N >= 2
    /\ opc = "collect"
    /\ i = N - 1
    /\ SomeStuck
    /\ ~ENABLED Next

\* the goroutines whose error the differ has received, in the order received
RECURSIVE ErrOrder(_)
ErrOrder(o) ==
    IF o = <<>>
    THEN <<>>
    ELSE ErrOrder(SubSeq(o, 1, Len(o) - 1))
         \o (IF sent[o[Len(o)]] = <<"errCh">> THEN <<o[Len(o)]>> ELSE <<>>)

Errs == ErrOrder(order)

\* C13: lastErr is at every moment the error most recently received on
\* errCh, whatever was received on resultCh since, and nil before the first;
\* the differ returns that error, wrapped.
C13_LastErrorWins ==
    /\ lastErr = IF Errs = <<>> THEN NoErr ELSE werr[Errs[Len(Errs)]]
    /\ (opc = "returned" /\ Errs # <<>>)
          => ret.err = Wrap(werr[Errs[Len(Errs)]], "calculating subset")

C13_Witness ==
    /\ opc = "returned"
    /\ Len(Errs) >= 2
    /\ werr[Errs[1]] # werr[Errs[Len(Errs)]]
    /\ ret.err = Wrap(werr[Errs[Len(Errs)]], "calculating subset")

\* the error the differ returns when the fetch of a worker failed with e
Returned(e) == <<"calculating subset", "getting state from cluster">> \o e

\* C14 as stated: when workers fail the returned error wraps the first error
\* the differ observed.
C14_Original ==
    (opc = "returned" /\ Errs # <<>>)
        => ret.err = Wrap(werr[Errs[1]], "calculating subset")

\* C14, amended: when workers fail the differ returns one error, the fetch
\* error of the worker whose failure it observed last, wrapped twice; the
\* errors observed before it are not part of it.
C14_SingleLastError ==
    (opc = "returned" /\ Errs # <<>>)
        => /\ ret.diff = NilStr
           /\ \E e \in FetchErrors :
                 /\ ret.err = Returned(e)
                 /\ werr[Errs[Len(Errs)]] = Wrap(e, "getting state from cluster")

C14_Witness ==
    /\ opc = "returned"
    /\ Len(Errs) >= 2
    /\ ret.err = Returned(<<"e2">>)
    /\ werr[Errs[1]] = Wrap(<<"e1">>, "getting state from cluster")

\* C15: the records are collected in the order received, and rendered in
\* that order; whenever a worker is ready to send its record the differ may
\* take that one next, so that any order of the workers can be the order of
\* the records.
C15_CompletionOrder ==
    /\ {order[n] : n \in DOMAIN order} = {w \in Workers : wpc[w] = "done"}
    /\ Len(order) = i
    /\ ~FetchFailed => /\ Len(docs) = Len(order)
                       /\ \A n \in DOMAIN docs : docs[n] = wdiff[order[n]]
    /\ \A n \in DOMAIN calls : calls[n].d = docs[n]
    /\ \A w \in Workers :
          (opc = "collect" /\ wpc[w] = "sendRes") => ENABLED RecvResult(w)

C15_Witness ==
    /\ opc = "returned"
    /\ N >= 2
    /\ order[1] = N
    /\ order[N] = 1
    /\ wdiff[1] # wdiff[N]
    /\ Len(calls) = N
    /\ ~ret.diff.nil

RECURSIVE Join(_)

\* the non-empty texts of the calls c, in order, with "\n" between them
Join(c) ==
    IF c = <<>>
    THEN <<>>
    ELSE LET init == Join(SubSeq(c, 1, Len(c) - 1))
             last == c[Len(c)].s
         IN  IF last = <<>> THEN init
             ELSE IF init = <<>> THEN last
             ELSE init \o <<"\n">> \o last

\* C16: when no worker fails and the renderer returns no error, the renderer
\* has been called once per collected record, in collection order, with the
\* record's label, the text of the reduced live object and the text of the
\* manifest, and the returned string is the non-empty outputs joined by one
\* newline (nil if there is none).
C16_RenderAndJoin ==
    (opc = "returned" /\ ret.err = NoErr)
        => /\ Len(calls) = Len(docs)
           /\ \A n \in DOMAIN calls :
                 /\ calls[n].d = docs[n]
                 /\ calls[n].d.name = DiffName(state0[order[n]])
                 /\ calls[n].d.cluster = String(state0[order[n]])
                 /\ \E get \in GetOutcomes :
                       /\ get.k = fetched[order[n]]
                       /\ calls[n].d.local
                             = LET t == String(subset(state0[order[n]],
                                                      IF get.k = "ok" THEN get.res
                                                      ELSE MapV(<<>>)).c)
                               IN  IF t = <<"{}", "\n">> THEN <<>> ELSE t
           /\ ret.diff = IF Join(calls) = <<>> THEN NilStr ELSE StrPtr(Join(calls))

C16_Witness ==
    /\ opc = "returned"
    /\ ret.err = NoErr
    /\ Len(calls) >= 2
    /\ calls[1].s = <<"d", "\n">>
    /\ calls[Len(calls)].s = <<"\n">>
    /\ ret.diff = StrPtr(<<"d", "\n", "\n", "\n">>)

\* C17 as stated: reduce deletes a key of live exactly when desired has no
\* such key; a key that desired holds, be it with the value null, is kept.
C17_Original ==
    rpc = "reduced"
        => \A k \in DOMAIN live0.m : k \in DOMAIN live.m <=> k \in DOMAIN desired0.m

RECURSIVE ListsKept(_, _, _)

\* element n of the list r, which was l0, where d is desired's value
ElementKept(r, l0, d, n) ==
    IF d.t = "list" /\ n <= Len(d.s) /\ d.s[n].t = "map" /\ l0.s[n].t = "map"
    THEN r.s[n] = subset(d.s[n], l0.s[n]).c
    ELSE r.s[n] = l0.s[n]

\* every key of r that held a list in l0 holds a list of the same length,
\* element by element as ElementKept says; maps under a key that holds a map
\* in d too are looked into.  A key that rule 1 or 2 has written holds d's
\* own list, whose length is kept.
ListsKept(r, l0, d) ==
    \A k \in DOMAIN r.m :
       IF Written(k, l0, d)
       THEN d.m[k].t = "list" => (r.m[k].t = "list" /\ Len(r.m[k].s) = Len(d.m[k].s))
       ELSE CASE l0.m[k].t = "list" ->
                   /\ r.m[k].t = "list"
                   /\ Len(r.m[k].s) = Len(l0.m[k].s)
                   /\ \A n \in DOMAIN l0.m[k].s : ElementKept(r.m[k], l0.m[k], d.m[k], n)
              [] l0.m[k].t = "map" /\ d.m[k].t = "map" /\ r.m[k].t = "map" ->
                   ListsKept(r.m[k], l0.m[k], d.m[k])
              [] OTHER -> TRUE

C19_Original ==
    rpc = "reduced"
        => /\ "apiVersion" \in DOMAIN live.m
                <=> (SetIn(desired0, "apiVersion") /\ SetIn(live0, "apiVersion"))
           /\ "apiVersion" \in DOMAIN live.m
                => live.m["apiVersion"] = Index(desired0, "apiVersion")

\* C19, amended: the reduced tree has a non-null apiVersion exactly when both
\* desired.apiVersion and live.apiVersion were set, and it is then the
\* apiVersion desired has when the call returns; a tree that had no
\* apiVersion key gets none; an apiVersion key with the value null is left
\* exactly when live held it so and desired.apiVersion is set.
C19_Rule2ApiVersion ==
    rpc = "reduced"
        => /\ SetIn(live, "apiVersion")
                <=> (SetIn(desired0, "apiVersion") /\ SetIn(live0, "apiVersion"))
           /\ SetIn(live, "apiVersion")
                => live.m["apiVersion"] = Index(desired, "apiVersion")
           /\ "apiVersion" \notin DOMAIN live0.m => "apiVersion" \notin DOMAIN live.m
           /\ ("apiVersion" \in DOMAIN live.m /\ ~SetIn(live, "apiVersion"))
                <=> /\ "apiVersion" \in DOMAIN live0.m
                    /\ ~SetIn(live0, "apiVersion")
                    /\ SetIn(desired0, "apiVersion")

C19_Witness ==
    /\ rpc = "reduced"
    /\ SetIn(desired0, "apiVersion")
    /\ SetIn(live0, "apiVersion")
    /\ live0.m["apiVersion"] # desired0.m["apiVersion"]
    /\ live.m["apiVersion"] = desired0.m["apiVersion"]

\* C20 as stated: reduce leaves the desired tree as it was, at every level.
C20_Original == rpc \in {"reduced", "again"} => desired = desired0

====
